---- MODULE Spec2Model ----
(***************************************************************************)
(* Model of src/src/lib.rs: the render state (State::new, resize, input,   *)
(* update, render) and the closure that run() hands to the winit event     *)
(* loop.  The window system (window size, event delivery, loop exit) is    *)
(* the environment of that closure.                                        *)
(***************************************************************************)
EXTENDS Integers, Sequences, FiniteSets, TLC

\* ------------------------------------------------------------------ bounds

\* Largest width and height the window system gives the window, besides the
\* size the program asks for.
MaxDim == 1
\* Resized notifications that may be waiting for delivery at one time.
MaxPending == 1
\* Events the loop iteration in progress may still deliver once exit() was
\* requested (the loop stops between iterations, not inside one).
MaxAfterExit == 1

\* ------------------------------------------------------- program constants

\* PhysicalSize::new(800, 800)
InitialDim == 800
\* window.id(); ForeignWindowId is any other id
WindowId == 1
ForeignWindowId == 2

\* PhysicalSize<u32> values of the window
Sizes == ((0..MaxDim) \X (0..MaxDim)) \cup {<<InitialDim, InitialDim>>}

\* surface_capabilities.formats: the lists the adapter may report
Formats == {"Bgra8UnormSrgb", "Rgba8UnormSrgb"}
FormatLists == {<<a>> : a \in Formats} \cup {<<a, b>> : a \in Formats, b \in Formats}

\* wgpu::SurfaceError as get_current_texture() reports it, or "Ok"
SurfaceErrors == {"Timeout", "Outdated", "Lost", "OutOfMemory"}
AcquireResults == {"Ok"} \cup SurfaceErrors

\* PhysicalKey values that matter to the closure
Keys == {"Escape", "KeyA"}

VARIABLES
    state,            \* State: size, surface_config, surface, pipeline
    exiting,          \* control_flow: exit() has been requested
    redraw_requested, \* window.request_redraw() is pending
    inner_size,       \* the window's current physical size
    pending,          \* sizes of the Resized notifications not yet delivered
    running,          \* event_loop.run() is still dispatching
    after_exit,       \* events dispatched since exit() was first requested
    ev,               \* the event the last step dispatched ("none": no event)
    calls,            \* what the closure called while handling ev, in order
    gpu,              \* what reached the surface/queue while handling ev
    logged,           \* error!() lines written while handling ev
    exit_reason       \* what requested exit() first

vars == <<state, exiting, redraw_requested, inner_size, pending, running,
          after_exit, ev, calls, gpu, logged, exit_reason>>

\* ------------------------------------------------------------------ helpers

NoSize == <<>>
Call(op, size, info) == [op |-> op, size |-> size, info |-> info]

\* The part of the world one closure invocation reads and writes.
World ==
    [state |-> state, exiting |-> exiting, redraw_requested |-> redraw_requested,
     inner_size |-> inner_size, calls |-> <<>>, gpu |-> <<>>, logged |-> <<>>]

RECURSIVE Count(_, _)
Count(s, x) ==
    IF s = <<>> THEN 0
    ELSE (IF Head(s) = x THEN 1 ELSE 0) + Count(Tail(s), x)

Ops(cs) == [i \in 1..Len(cs) |-> cs[i].op]
CountOp(cs, op) == Count(Ops(cs), op)

\* ------------------------------------------------------------ State (impl)

\* State::new: surface_config, surface.configure(), pipeline
new(size, formats) ==
    LET surface_format == formats[1]
        surface_config ==
            [usage |-> "RENDER_ATTACHMENT",
             format |-> surface_format,
             width |-> size[1],
             height |-> size[2],
             present_mode |-> "Fifo",
             alpha_mode |-> "Auto"]
    IN  [size |-> size,
         surface_config |-> surface_config,
         surface |-> [config |-> surface_config],
         pipeline |-> [format |-> surface_config.format,
                       blend |-> "ALPHA_BLENDING"]]

\* surface.configure(&device, &surface_config)
configure(w) ==
    [w EXCEPT !.state.surface.config = w.state.surface_config,
              !.gpu = Append(@, "configure")]

resize_keeps_width(w, new_size) ==
    configure([w EXCEPT !.state.size = new_size,
                        !.state.surface_config.height = new_size[2],
                        !.calls = Append(@, Call("resize", new_size, ""))])

resize_resets_format(w, new_size) ==
    configure([w EXCEPT !.state.size = new_size,
                        !.state.surface_config.width = new_size[1],
                        !.state.surface_config.height = new_size[2],
                        !.state.surface_config.format = "Rgba8Unorm",
                        !.calls = Append(@, Call("resize", new_size, ""))])

\* State::resize
resize(w, new_size) ==
    configure([w EXCEPT !.state.size = new_size,
                        !.state.surface_config.width = new_size[1],
                        !.state.surface_config.height = new_size[2],
                        !.calls = Append(@, Call("resize", new_size, ""))])

input_handles_escape(w, event) ==
    [ret |-> (event.key = "Escape"),
     w |-> [w EXCEPT !.calls = Append(@, Call("input", NoSize, event.key))]]

\* State::input
input(w, event) ==
    [ret |-> FALSE,
     w |-> [w EXCEPT !.calls = Append(@, Call("input", NoSize, event.key))]]

\* State::update
update(w) ==
    [w EXCEPT !.calls = Append(@, Call("update", NoSize, ""))]

\* What render() sends to the surface and the queue once a frame is acquired.
FrameOps ==
    <<"get_current_texture", "create_view", "create_command_encoder",
      "begin_render_pass", "set_pipeline", "draw(0..3,0..1)", "end_render_pass",
      "submit", "present">>

render_keeps_frame(w, acquired) ==
    IF acquired # "Ok"
    THEN [ret |-> acquired,
          w |-> [w EXCEPT !.gpu = Append(@, "get_current_texture:Err"),
                          !.calls = Append(@, Call("render", NoSize, acquired))]]
    ELSE [ret |-> "Ok",
          w |-> [w EXCEPT !.gpu = @ \o SubSeq(FrameOps, 1, 8),
                          !.calls = Append(@, Call("render", NoSize, "Ok"))]]

\* State::render; `acquired` is what surface.get_current_texture() returns
render(w, acquired) ==
    IF acquired # "Ok"
    THEN [ret |-> acquired,
          w |-> [w EXCEPT !.gpu = Append(@, "get_current_texture:Err"),
                          !.calls = Append(@, Call("render", NoSize, acquired))]]
    ELSE [ret |-> "Ok",
          w |-> [w EXCEPT !.gpu = @ \o FrameOps,
                          !.calls = Append(@, Call("render", NoSize, "Ok"))]]

\* ------------------------------------------------------- the run() closure

\* control_flow.exit()
exit(w) ==
    [w EXCEPT !.exiting = TRUE, !.calls = Append(@, Call("exit", NoSize, ""))]

\* window.request_redraw()
request_redraw(w) ==
    [w EXCEPT !.redraw_requested = TRUE,
              !.calls = Append(@, Call("request_redraw", NoSize, ""))]

\* error!("unhandled error {:?}", e)
log_error(w, e) == [w EXCEPT !.logged = Append(@, e)]

any_window(event) == event.type = "WindowEvent"

\* Event::WindowEvent { .. } if window_id == window.id()
own_window(event) ==
    event.type = "WindowEvent" /\ event.window_id = WindowId

on_lost_ignores(w) == w

\* Err(wgpu::SurfaceError::Lost) => state.resize(state.size)
on_lost(w) == resize(w, w.state.size)

\* Err(wgpu::SurfaceError::OutOfMemory) => control_flow.exit()
on_out_of_memory(w) == exit(w)

on_other_error_retries(w, e) == request_redraw(log_error(w, e))

\* Err(e) => error!("unhandled error {:?}", e)
on_other_error(w, e) == log_error(w, e)

\* WindowEvent::RedrawRequested => { state.update(); match state.render() ... }
on_redraw_requested(w, acquired) ==
    LET r == render(update(w), acquired)
    IN  CASE r.ret = "Ok" -> r.w
          [] r.ret = "Lost" -> on_lost(r.w)
          [] r.ret = "OutOfMemory" -> on_out_of_memory(r.w)
          [] OTHER -> on_other_error(r.w, r.ret)

\* WindowEvent::KeyboardInput { event, .. } => { ... }
on_keyboard_input(w, event) ==
    LET r == input(w, event)
    IN  IF r.ret THEN request_redraw(r.w)
        ELSE IF event.pressed /\ event.key = "Escape" THEN exit(r.w) ELSE r.w

on_resized_ignores(w, event) == w

\* WindowEvent::Resized(size) => state.resize(*size)
on_resized(w, event) == resize(w, event.size)

\* WindowEvent::ScaleFactorChanged { .. } => state.resize(window.inner_size())
on_scale_factor_changed(w) == resize(w, w.inner_size)

\* The closure given to event_loop.run
handler(w, event, acquired) ==
    IF own_window(event)
    THEN CASE event.kind = "Resized" -> on_resized(w, event)
           [] event.kind = "ScaleFactorChanged" -> on_scale_factor_changed(w)
           [] event.kind = "CloseRequested" -> exit(w)
           [] event.kind = "KeyboardInput" -> on_keyboard_input(w, event)
           [] event.kind = "RedrawRequested" -> on_redraw_requested(w, acquired)
           [] OTHER -> w
    ELSE w

\* ------------------------------------------------- event_loop.run (winit)

Event(type, window_id, kind, size, key, pressed) ==
    [type |-> type, window_id |-> window_id, kind |-> kind, size |-> size,
     key |-> key, pressed |-> pressed]

WindowEvent(window_id, kind) ==
    Event("WindowEvent", window_id, kind, NoSize, "", FALSE)

\* The loop checks for exit between iterations: an iteration in progress
\* still hands its remaining events to the closure.
CanDeliver == running /\ (exiting => after_exit < MaxAfterExit)

RenderResult(cs, r) ==
    \E i \in 1..Len(cs) : cs[i].op = "render" /\ cs[i].info = r

\* One invocation of the closure: it runs to completion before the next event.
Deliver(w0, event, acquired) ==
    \E w \in {handler(w0, event, acquired)} :
        /\ state' = w.state
        /\ exiting' = w.exiting
        /\ redraw_requested' = w.redraw_requested
        /\ calls' = w.calls
        /\ gpu' = w.gpu
        /\ logged' = w.logged
        /\ ev' = event
        /\ after_exit' = IF exiting THEN after_exit + 1 ELSE 0
        /\ exit_reason' =
              IF ~exiting /\ w.exiting
              THEN CASE event.kind = "CloseRequested" -> "CloseRequested"
                     [] event.kind = "KeyboardInput" -> "Escape"
                     [] event.kind = "RedrawRequested" -> "OutOfMemory"
                     [] OTHER -> "other"
              ELSE exit_reason

\* The window system resizes the window; the Resized event follows later.
WindowResized ==
    \E s \in Sizes :
        /\ running /\ ~exiting
        /\ s # inner_size
        /\ Len(pending) < MaxPending
        /\ inner_size' = s
        /\ pending' = Append(pending, s)
        /\ ev' = Event("none", 0, "", NoSize, "", FALSE)
        /\ calls' = <<>>
        /\ gpu' = <<>>
        /\ logged' = <<>>
        /\ UNCHANGED <<state, exiting, redraw_requested, running, after_exit,
                       exit_reason>>

DeliverResized ==
    /\ CanDeliver
    /\ pending # <<>>
    /\ Deliver(World,
               Event("WindowEvent", WindowId, "Resized", Head(pending), "", FALSE),
               "Ok")
    /\ pending' = Tail(pending)
    /\ UNCHANGED <<inner_size, running>>

\* After the closure returns the window takes the inner size that goes with
\* the new scale factor, and a Resized event for it follows.
DeliverScaleFactorChanged ==
    \E n \in Sizes :
        /\ CanDeliver
        /\ Deliver(World, WindowEvent(WindowId, "ScaleFactorChanged"), "Ok")
        /\ IF n # inner_size
           THEN /\ Len(pending) < MaxPending
                /\ inner_size' = n
                /\ pending' = Append(pending, n)
           ELSE UNCHANGED <<inner_size, pending>>
        /\ UNCHANGED running

DeliverCloseRequested ==
    /\ CanDeliver
    /\ Deliver(World, WindowEvent(WindowId, "CloseRequested"), "Ok")
    /\ UNCHANGED <<inner_size, pending, running>>

DeliverKeyboardInput ==
    \E key \in Keys, pressed \in BOOLEAN :
        /\ CanDeliver
        /\ Deliver(World,
                   Event("WindowEvent", WindowId, "KeyboardInput", NoSize, key, pressed),
                   "Ok")
        /\ UNCHANGED <<inner_size, pending, running>>

\* A redraw request, from window.request_redraw() or from the window system.
DeliverRedrawRequested ==
    \E acquired \in AcquireResults :
        /\ CanDeliver
        /\ Deliver([World EXCEPT !.redraw_requested = FALSE],
                   WindowEvent(WindowId, "RedrawRequested"), acquired)
        /\ UNCHANGED <<inner_size, pending, running>>

\* Any other event of the window: the `_ => {}` arm of the inner match.
DeliverOtherWindowEvent ==
    /\ CanDeliver
    /\ Deliver(World, WindowEvent(WindowId, "Focused"), "Ok")
    /\ UNCHANGED <<inner_size, pending, running>>

\* A window event that carries another window id.
DeliverForeignWindowEvent ==
    \E e \in {WindowEvent(ForeignWindowId, "RedrawRequested"),
              WindowEvent(ForeignWindowId, "CloseRequested"),
              Event("WindowEvent", ForeignWindowId, "KeyboardInput", NoSize,
                    "Escape", TRUE)} :
        /\ CanDeliver
        /\ Deliver(World, e, "Ok")
        /\ UNCHANGED <<inner_size, pending, running>>

\* Events that are no window events: the outer `_ => {}` arm.
DeliverLoopEvent ==
    /\ CanDeliver
    /\ Deliver(World, Event("AboutToWait", 0, "", NoSize, "", FALSE), "Ok")
    /\ UNCHANGED <<inner_size, pending, running>>

\* The loop sees the exit request, hands LoopExiting to the closure and stops.
LoopExit ==
    /\ running /\ exiting
    /\ Deliver(World, Event("LoopExiting", 0, "", NoSize, "", FALSE), "Ok")
    /\ running' = FALSE
    /\ UNCHANGED <<inner_size, pending>>

Init ==
    \E size \in Sizes, formats \in FormatLists :
        /\ inner_size = size
        /\ state = new(size, formats)
        /\ exiting = FALSE
        /\ redraw_requested = FALSE
        /\ pending = <<>>
        /\ running = TRUE
        /\ after_exit = 0
        /\ ev = Event("none", 0, "", NoSize, "", FALSE)
        /\ calls = <<>>
        /\ gpu = <<>>
        /\ logged = <<>>
        /\ exit_reason = "none"

Next ==
    \/ WindowResized
    \/ DeliverResized
    \/ DeliverScaleFactorChanged
    \/ DeliverCloseRequested
    \/ DeliverKeyboardInput
    \/ DeliverRedrawRequested
    \/ DeliverOtherWindowEvent
    \/ DeliverForeignWindowEvent
    \/ DeliverLoopEvent
    \/ LoopExit

Spec == Init /\ [][Next]_vars

\* -------------------------------------------------------------- properties

OwnEvent(kind) ==
    ev.type = "WindowEvent" /\ ev.window_id = WindowId /\ ev.kind = kind

Called(op) == CountOp(calls, op)

\* Position of the first x in s, 0 when there is none.
RECURSIVE IndexOf(_, _)
IndexOf(s, x) ==
    IF s = <<>> THEN 0
    ELSE IF Head(s) = x THEN 1
    ELSE IF IndexOf(Tail(s), x) = 0 THEN 0
    ELSE 1 + IndexOf(Tail(s), x)

\* Frames acquired and not yet presented after the first n entries of gpu.
Outstanding(n) ==
    Count(SubSeq(gpu, 1, n), "get_current_texture")
        - Count(SubSeq(gpu, 1, n), "present")

ConfigSize(c) == <<c.width, c.height>>

\* C1: a render() that fails with Lost is followed, in the same closure
\* invocation, by exactly one resize whose argument is the size the state
\* held before the error; the surface is reconfigured once to that size, no
\* exit is requested and the loop goes on dispatching; the stored size only
\* ever changes to the argument of a resize; every redraw request that is
\* dispatched calls render() once.
C1_LostRecovery ==
    [][/\ RenderResult(calls', "Lost") =>
            /\ calls' = <<Call("update", NoSize, ""),
                          Call("render", NoSize, "Lost"),
                          Call("resize", state.size, "")>>
            /\ gpu' = <<"get_current_texture:Err", "configure">>
            /\ state'.size = state.size
            /\ ConfigSize(state'.surface.config) = state.size
            /\ exiting' = exiting
            /\ running' = running
            /\ exit_reason' = exit_reason
       /\ state'.size # state.size =>
            \E i \in 1..Len(calls') : calls'[i] = Call("resize", state'.size, "")
       /\ (ev'.type = "WindowEvent" /\ ev'.window_id = WindowId
             /\ ev'.kind = "RedrawRequested") => CountOp(calls', "render") = 1
      ]_vars

\* C1 witness: a Lost failure was recovered after the window had been resized.
C1_Witness ==
    /\ RenderResult(calls, "Lost")
    /\ Called("resize") = 1
    /\ state.size = <<1, 0>>
    /\ ~exiting

\* C2: once render() has failed with OutOfMemory and exit() was requested,
\* no event dispatched afterwards calls render().
C2_NoRenderAfterOutOfMemory ==
    (exit_reason = "OutOfMemory" /\ after_exit > 0) => Called("render") = 0

\* C3: after the CloseRequested event or the Escape key press that requested
\* exit(), no event is dispatched to the state: no resize, input, update or
\* render call.
C3_NoDispatchAfterExit ==
    (exit_reason \in {"CloseRequested", "Escape"} /\ after_exit > 0) =>
        /\ Called("resize") = 0
        /\ Called("input") = 0
        /\ Called("update") = 0
        /\ Called("render") = 0

\* C4 as the specification states it: whenever render() is called, the
\* surface configuration's width and height equal the window's current
\* physical size.
C4_ConfigEqualsWindowSize ==
    Called("render") > 0 => ConfigSize(state.surface.config) = inner_size

\* C4 as amended: whenever render() is called, the surface configuration's
\* width and height equal the stored size (the size given to the most recent
\* resize, or the initial inner size); that size is the window's current
\* physical size once every Resized notification has been delivered.
C4_ConfigEqualsStoredSize ==
    Called("render") > 0 =>
        /\ ConfigSize(state.surface.config) = state.size
        /\ ConfigSize(state.surface_config) = state.size
        /\ (pending = <<>> => state.size = inner_size)

\* C4 witness: a frame is requested after a Resized event changed the size.
C4_Witness ==
    /\ RenderResult(calls, "Ok")
    /\ pending = <<>>
    /\ state.size = <<0, 1>>
    /\ inner_size = <<0, 1>>

\* C5: after resize(w, h) the stored size and the configuration's width and
\* height are (w, h), zero or not, and the surface was configured once, with
\* that configuration.
C5_ResizeStoresSize ==
    \A i \in 1..Len(calls) :
        calls[i].op = "resize" =>
            /\ state.size = calls[i].size
            /\ ConfigSize(state.surface_config) = calls[i].size
            /\ state.surface.config = state.surface_config
            /\ Called("resize") = 1
            /\ Count(gpu, "configure") = 1
            /\ (OwnEvent("Resized") => calls[i].size = ev.size)

\* C5 witness: a Resized event with a positive width and height was handled.
C5_Witness ==
    /\ OwnEvent("Resized")
    /\ ev.size = <<1, 1>>
    /\ calls = <<Call("resize", <<1, 1>>, "")>>

\* C6: render() is called only while a RedrawRequested event of the
\* program's own window is handled, and such an event calls update() once and
\* then render() once; no other event calls update() or render().
C6_RenderOnlyOnRedraw ==
    /\ OwnEvent("RedrawRequested") =>
            /\ Len(calls) >= 2
            /\ calls[1].op = "update"
            /\ calls[2].op = "render"
            /\ Called("update") = 1
            /\ Called("render") = 1
    /\ ~OwnEvent("RedrawRequested") =>
            /\ Called("update") = 0
            /\ Called("render") = 0
            /\ gpu \in {<<>>, <<"configure">>}

\* C6 witness: a redraw request of the own window rendered a frame.
C6_Witness == OwnEvent("RedrawRequested") /\ RenderResult(calls, "Ok")

\* C7: a render() failure other than Lost and OutOfMemory is logged; nothing
\* is submitted or presented, no resize, exit or redraw request is made, the
\* state is unchanged and the loop goes on dispatching.
C7_OtherErrorSkipsFrame ==
    [][\A e \in SurfaceErrors \ {"Lost", "OutOfMemory"} :
          RenderResult(calls', e) =>
            /\ logged' = <<e>>
            /\ calls' = <<Call("update", NoSize, ""), Call("render", NoSize, e)>>
            /\ gpu' = <<"get_current_texture:Err">>
            /\ state' = state
            /\ exiting' = exiting
            /\ running' = running
            /\ redraw_requested' = FALSE
      ]_vars

\* C7 witness: render() failed with Timeout while the loop was not exiting.
C7_Witness == RenderResult(calls, "Timeout") /\ ~exiting /\ running

\* C8: input() returns false for every key event and changes no state; a
\* keyboard event never requests a redraw, and it requests exit() exactly
\* when the key is Escape in the pressed state.
C8_InputUnhandled ==
    [][(ev'.type = "WindowEvent" /\ ev'.window_id = WindowId
          /\ ev'.kind = "KeyboardInput") =>
            /\ input(World, ev').ret = FALSE
            /\ input(World, ev').w.state = state
            /\ calls'[1] = Call("input", NoSize, ev'.key)
            /\ state' = state
            /\ redraw_requested' = redraw_requested
            /\ CountOp(calls', "request_redraw") = 0
            /\ (CountOp(calls', "exit") = 1) = (ev'.key = "Escape" /\ ev'.pressed)
            /\ CountOp(calls', "exit") <= 1
      ]_vars

\* C8 witness: an Escape key release was handled and the loop goes on.
C8_Witness ==
    /\ OwnEvent("KeyboardInput")
    /\ ev.key = "Escape" /\ ~ev.pressed
    /\ Called("input") = 1
    /\ ~exiting

\* C9: a render() that succeeds acquires one frame, records one render pass
\* with one 3-vertex draw, submits once and presents once, in that order; a
\* render() whose acquisition fails submits and presents nothing; no frame
\* is held when the call returns and never more than one during it.
C9_OneFramePerRender ==
    /\ RenderResult(calls, "Ok") =>
            /\ Count(gpu, "get_current_texture") = 1
            /\ Count(gpu, "begin_render_pass") = 1
            /\ Count(gpu, "draw(0..3,0..1)") = 1
            /\ Count(gpu, "submit") = 1
            /\ Count(gpu, "present") = 1
            /\ IndexOf(gpu, "get_current_texture") < IndexOf(gpu, "begin_render_pass")
            /\ IndexOf(gpu, "begin_render_pass") < IndexOf(gpu, "draw(0..3,0..1)")
            /\ IndexOf(gpu, "draw(0..3,0..1)") < IndexOf(gpu, "submit")
            /\ IndexOf(gpu, "submit") < IndexOf(gpu, "present")
    /\ (Called("render") > 0 /\ ~RenderResult(calls, "Ok")) =>
            /\ Count(gpu, "get_current_texture") = 0
            /\ Count(gpu, "submit") = 0
            /\ Count(gpu, "present") = 0
    /\ Outstanding(Len(gpu)) = 0
    /\ \A n \in 0..Len(gpu) : Outstanding(n) \in {0, 1}

\* C9 witness: a frame was acquired, submitted and presented.
C9_Witness ==
    /\ RenderResult(calls, "Ok")
    /\ Count(gpu, "present") = 1

\* Everything of the state but the stored size and the configured width and
\* height.
Fixed(st) ==
    [st EXCEPT !.size = <<0, 0>>,
               !.surface_config.width = 0, !.surface_config.height = 0,
               !.surface.config.width = 0, !.surface.config.height = 0]

\* C10: the configuration's format, present mode and alpha mode and the
\* pipeline stay as initialization chose them, and the pipeline's colour
\* target format is the configuration's format: no step changes anything of
\* the state but the stored size and the configured width and height.
C10_FormatAndPipelineFixed ==
    /\ [](/\ state.pipeline.format = state.surface_config.format
          /\ state.surface.config.format = state.surface_config.format
          /\ state.surface_config.format \in Formats
          /\ state.surface_config.present_mode = "Fifo"
          /\ state.surface_config.alpha_mode = "Auto")
    /\ [][Fixed(state') = Fixed(state)]_vars

\* C10 witness: a resize changed the stored size of a state whose format is
\* the second one the adapter may report.
C10_Witness ==
    /\ Called("resize") = 1
    /\ state.size = <<1, 1>>
    /\ state.pipeline.format = "Rgba8UnormSrgb"
====
